---- MODULE Spec2Model ----
(***************************************************************************)
(* Model of the weather application in src/main.py: the `cities` and       *)
(* `default_cities` tables, the request handlers add_city, remove_city,    *)
(* reset_cities and update_weather, the weather client fetch_weather and   *)
(* the startup hook populate_default_cities.                               *)
(*                                                                         *)
(* Coordinates and temperatures are integers: a coordinate is in units of  *)
(* 1/10000 degree (51.5074 is 515074).  An optional value (a nullable      *)
(* column, a Python None) is a sequence of length 0 or 1.                  *)
(*                                                                         *)
(* Handlers are coroutines on one event loop: a handler runs without       *)
(* interruption between two awaits.  add_city, remove_city and             *)
(* reset_cities never await; update_weather awaits once per city.          *)
(***************************************************************************)
EXTENDS Integers, Sequences, FiniteSets, TLC

VARIABLES cities, default_cities_tbl, now, app, pc, snapshot, staged, idx,
          started, results, disturbed, last

vars == <<cities, default_cities_tbl, now, app, pc, snapshot, staged, idx,
          started, results, disturbed, last>>

\* ---------------------------------------------------------------- bounds
MaxTime == 2
MaxId == 2
MaxSnapshot == 2
MaxCsvRows == 2
NumRequests == 2

Requests == 1..NumRequests

\* ------------------------------------------------------- optional values
None == <<>>

Some(v) == <<v>>

\* a value that is present and is no number (a JSON string such as "n/a")
Text == <<0, 0>>

\* ------------------------------------------------------------ sequences
RECURSIVE SelectRows(_, _)
\* the rows of s whose id differs from city_id, in order
SelectRows(s, city_id) ==
    IF s = <<>> THEN <<>>
    ELSE IF Head(s).id = city_id THEN SelectRows(Tail(s), city_id)
         ELSE <<Head(s)>> \o SelectRows(Tail(s), city_id)

Ids(s) == {s[i].id : i \in 1..Len(s)}

RECURSIVE MaxOf(_)
MaxOf(S) == IF S = {} THEN 0
            ELSE LET x == CHOOSE y \in S : TRUE
                     m == MaxOf(S \ {x})
                 IN IF x > m THEN x ELSE m

\* SQLite INTEGER PRIMARY KEY without AUTOINCREMENT: one more than the
\* largest id in use, 1 in an empty table (ids of deleted rows are reused)
NextId(s) == MaxOf(Ids(s)) + 1

\* ------------------------------------------------------------- the rows
\* the default declared on temperature in place of updated_at
CityDefaultOnTemperature(id, name, latitude, longitude, t) ==
    [id |-> id, name |-> name, latitude |-> latitude, longitude |-> longitude,
     temperature |-> Some(0), updated_at |-> None]

\* updated_at declared without its default
CityNoDefault(id, name, latitude, longitude, t) ==
    [id |-> id, name |-> name, latitude |-> latitude, longitude |-> longitude,
     temperature |-> None, updated_at |-> None]

\* City(name=..., latitude=..., longitude=...) as INSERTed: temperature is
\* nullable with no default, updated_at has default=datetime.utcnow
City(id, name, latitude, longitude, t) ==
    [id |-> id, name |-> name, latitude |-> latitude, longitude |-> longitude,
     temperature |-> None, updated_at |-> Some(t)]

DefaultCity(id, name, latitude, longitude) ==
    [id |-> id, name |-> name, latitude |-> latitude, longitude |-> longitude]

\* db.add(City(...)) followed by a flush: the row is appended with a fresh id
InsertCity(s, name, latitude, longitude, t) ==
    Append(s, City(NextId(s), name, latitude, longitude, t))

\* the inline list of reset_cities
default_cities ==
    << <<"London", 515074, -1278>>,
       <<"Paris", 488566, 23522>>,
       <<"Berlin", 525200, 134050>>,
       <<"Rome", 419028, 124964>>,
       <<"Madrid", 404168, -37038>> >>

\* ------------------------------------------------------ the weather client
\* what the forecast provider can answer to one GET
Upstreams ==
    { [error |-> TRUE,  status |-> 0,   body |-> "none",               temperature |-> 0],
      [error |-> FALSE, status |-> 500, body |-> "none",               temperature |-> 0],
      [error |-> FALSE, status |-> 200, body |-> "invalid",            temperature |-> 0],
      [error |-> FALSE, status |-> 200, body |-> "no_current_weather", temperature |-> 0],
      [error |-> FALSE, status |-> 200, body |-> "number",             temperature |-> 0],
      [error |-> FALSE, status |-> 200, body |-> "number",             temperature |-> 18] }

\* every kind of answer: those, and a body whose temperature field holds a
\* string
Responses ==
    Upstreams \cup
    { [error |-> FALSE, status |-> 200, body |-> "text", temperature |-> 0] }

\* fetch_weather: the value of data.get("current_weather", {}).get("temperature")
\* on status 200, whatever its type; None on an exception (a network error,
\* a timeout, a body that is no JSON object); None (no return reached) on
\* another status
fetch_weather(up) ==
    IF up.error THEN None
    ELSE IF up.status = 200
         THEN IF up.body = "invalid" THEN None
              ELSE IF up.body = "no_current_weather" THEN None
              ELSE IF up.body = "text" THEN Text
              ELSE Some(up.temperature)
         ELSE None

\* ---------------------------------------------------------- the handlers
NoLast ==
    [op |-> "none", status |-> 0, req |-> 0, name |-> "", latitude |-> 0, longitude |-> 0,
     city_id |-> 0, found |-> FALSE, stg |-> <<>>, results |-> <<>>, disturbed |-> FALSE,
     file |-> "none", rows |-> <<>>,
     up |-> [error |-> FALSE, status |-> 0, body |-> "none", temperature |-> 0],
     temp |-> None, again |-> FALSE]

\* one call of fetch_weather(city.latitude, city.longitude) for a tracked
\* city, over every kind of answer
FetchWeather ==
    /\ app = "running"
    /\ \E i \in 1..Len(cities), up \in Responses :
         last' = [NoLast EXCEPT !.op = "fetch", !.city_id = cities[i].id,
                                !.latitude = cities[i].latitude,
                                !.longitude = cities[i].longitude,
                                !.up = up, !.temp = fetch_weather(up)]
    /\ UNCHANGED <<cities, default_cities_tbl, now, app, pc, snapshot, staged, idx,
                   started, results, disturbed>>

\* a commit of another session reached the cities table while a refresh is
\* between its query and its commit
Disturb(p) == [q \in Requests |-> IF q # p /\ pc[q] = "fetching" THEN TRUE ELSE disturbed[q]]

\* the form fields of POST /cities/add, as parsed by Form(...)
Forms ==
    { [name |-> "Lyon", latitude |-> 457600,  longitude |-> 48400],
      [name |-> "Lyon", latitude |-> 910000,  longitude |-> 48400],
      [name |-> "Lyon", latitude |-> 457600,  longitude |-> -1810000],
      [name |-> "",     latitude |-> 457600,  longitude |-> 48400] }

\* latitude and longitude passed in each other's place
add_citySwapped(s, name, latitude, longitude, t) == InsertCity(s, name, longitude, latitude, t)

\* add_city: no check of the fields in the handler
add_city(s, name, latitude, longitude, t) == InsertCity(s, name, latitude, longitude, t)

AddCity(forms) ==
    /\ app = "running"
    /\ NextId(cities) <= MaxId
    /\ \E form \in forms :
         \* Form(...) marks the field required: an empty string counts as a
         \* missing field and is answered 422 before the handler runs
         LET accepted == form.name # ""
         IN IF accepted
           THEN /\ cities' = add_city(cities, form.name, form.latitude, form.longitude, now)
                /\ disturbed' = Disturb(0)
                /\ last' = [NoLast EXCEPT !.op = "add", !.status = 303,
                                          !.name = form.name, !.latitude = form.latitude,
                                          !.longitude = form.longitude]
           ELSE /\ UNCHANGED <<cities, disturbed>>
                /\ last' = [NoLast EXCEPT !.op = "add", !.status = 422,
                                          !.name = form.name, !.latitude = form.latitude,
                                          !.longitude = form.longitude]
    /\ UNCHANGED <<default_cities_tbl, now, app, pc, snapshot, staged, idx, started,
                   results>>

\* the query without its filter: .first() is the first row of the table
remove_cityFirst(s, city_id) == IF s # <<>> THEN Tail(s) ELSE s

\* remove_city: the row with that id, if any, is deleted
remove_city(s, city_id) ==
    IF city_id \in Ids(s) THEN SelectRows(s, city_id) ELSE s

RemoveCity ==
    /\ app = "running"
    /\ \E city_id \in 1..(MaxOf(Ids(cities)) + 1) :
         /\ cities' = remove_city(cities, city_id)
         /\ disturbed' = IF city_id \in Ids(cities) THEN Disturb(0) ELSE disturbed
         /\ last' = [NoLast EXCEPT !.op = "remove", !.status = 303, !.city_id = city_id,
                                   !.found = city_id \in Ids(cities)]
    /\ UNCHANGED <<default_cities_tbl, now, app, pc, snapshot, staged, idx, started,
                   results>>

RECURSIVE InsertAll(_, _, _)
\* for name, lat, lon in default_cities: db.add(City(...))
InsertAll(s, list, t) ==
    IF list = <<>> THEN s
    ELSE InsertAll(InsertCity(s, Head(list)[1], Head(list)[2], Head(list)[3], t),
                   Tail(list), t)

\* where the store can fail in reset_cities: nowhere (0), or at the INSERT of
\* the k-th city of the list
ResetFailures == 0..Len(default_cities)

\* a commit after the DELETE and after every INSERT: the rows written before
\* the failure stay
reset_citiesAutocommit(s, t, fail) ==
    IF fail = 0 THEN InsertAll(<<>>, default_cities, t)
    ELSE InsertAll(<<>>, SubSeq(default_cities, 1, fail - 1), t)

\* the DELETE of reset_cities left out
reset_citiesNoDelete(s, t, fail) ==
    IF fail = 0 THEN InsertAll(s, default_cities, t) ELSE s

\* reset_cities: every row deleted, then one row per entry of the inline list,
\* in the one transaction db.commit() ends; an exception before the end of
\* the commit leaves the handler, get_db closes the session and the
\* transaction is rolled back
reset_cities(s, t, fail) ==
    IF fail = 0 THEN InsertAll(<<>>, default_cities, t) ELSE s

ResetCities ==
    /\ app = "running"
    /\ \E fail \in ResetFailures :
         /\ cities' = reset_cities(cities, now, fail)
         /\ disturbed' = IF fail = 0 THEN Disturb(0) ELSE disturbed
         /\ last' = [NoLast EXCEPT !.op = "reset", !.status = IF fail = 0 THEN 303 ELSE 500,
                                   !.again = (last.op = "reset" /\ last.status = 303)]
    /\ UNCHANGED <<default_cities_tbl, now, app, pc, snapshot, staged, idx, started,
                   results>>

\* ------------------------------------------------------------ the refresh
\* `if temp:` in place of `if temp is not None:`: a reading of 0 is dropped
AssignTruthy(row, temp, t) ==
    IF temp # None /\ temp # Some(0)
    THEN [row EXCEPT !.temperature = temp, !.updated_at = Some(t)]
    ELSE row

\* city.temperature = temp; city.updated_at = datetime.utcnow(), when temp is
\* not None
Assign(row, temp, t) ==
    IF temp # None
    THEN [row EXCEPT !.temperature = temp, !.updated_at = Some(t)]
    ELSE row

\* the session's objects whose attributes differ from the values loaded
Dirty(snap, stg) == {i \in 1..Len(stg) : stg[i] # snap[i]}

\* the flush of db.commit(): one UPDATE ... WHERE id = ? per dirty object,
\* setting the columns whose value differs from the loaded one
FlushUpdates(db, snap, stg) ==
    [i \in 1..Len(db) |->
        IF \E j \in Dirty(snap, stg) : stg[j].id = db[i].id
        THEN LET j == CHOOSE k \in Dirty(snap, stg) : stg[k].id = db[i].id
             IN [db[i] EXCEPT
                   !.temperature = IF stg[j].temperature # snap[j].temperature
                                   THEN stg[j].temperature ELSE @,
                   !.updated_at = IF stg[j].updated_at # snap[j].updated_at
                                  THEN stg[j].updated_at ELSE @]
        ELSE db[i]]

\* an UPDATE that matches no row raises StaleDataError and the transaction
\* is rolled back
Stale(db, snap, stg) == \E j \in Dirty(snap, stg) : stg[j].id \notin Ids(db)

\* the objects merged into the table: a row that is gone is inserted again
CommitMerge(db, snap, stg) ==
    LET gone == {j \in Dirty(snap, stg) : stg[j].id \notin Ids(db)}
        RECURSIVE Put(_, _)
        Put(t, js) == IF js = {} THEN t
                      ELSE LET j == CHOOSE k \in js : TRUE
                           IN Put(Append(t, stg[j]), js \ {j})
    IN Put(FlushUpdates(db, snap, stg), gone)

Commit(db, snap, stg) == IF Stale(db, snap, stg) THEN db ELSE FlushUpdates(db, snap, stg)

\* the end of update_weather for request p, its objects being stg
Finish(p, stg, res) ==
    /\ cities' = Commit(cities, snapshot[p], stg)
    /\ pc' = [pc EXCEPT ![p] = "idle"]
    /\ snapshot' = [snapshot EXCEPT ![p] = <<>>]
    /\ staged' = [staged EXCEPT ![p] = <<>>]
    /\ idx' = [idx EXCEPT ![p] = 0]
    /\ started' = [started EXCEPT ![p] = 0]
    /\ results' = [results EXCEPT ![p] = <<>>]
    /\ disturbed' = [(IF cities' # cities THEN Disturb(p) ELSE disturbed) EXCEPT ![p] = FALSE]
    /\ last' = [NoLast EXCEPT !.op = "update", !.req = p,
                              !.status = IF Stale(cities, snapshot[p], stg) THEN 500 ELSE 303,
                              !.stg = stg, !.results = res, !.disturbed = disturbed[p]]

\* update_weather up to its first await: cities = db.query(City).all(), then
\* the first fetch is sent; with no city the commit follows at once
UpdateWeatherStart(p) ==
    /\ app = "running"
    /\ pc[p] = "idle"
    /\ Len(cities) <= MaxSnapshot
    /\ IF cities = <<>>
       THEN /\ Finish(p, <<>>, <<>>)
            /\ UNCHANGED <<default_cities_tbl, now, app>>
       ELSE /\ pc' = [pc EXCEPT ![p] = "fetching"]
            /\ snapshot' = [snapshot EXCEPT ![p] = cities]
            /\ staged' = [staged EXCEPT ![p] = cities]
            /\ idx' = [idx EXCEPT ![p] = 1]
            /\ started' = [started EXCEPT ![p] = now]
            /\ results' = [results EXCEPT ![p] = <<>>]
            /\ disturbed' = [disturbed EXCEPT ![p] = FALSE]
            /\ UNCHANGED <<cities, default_cities_tbl, now, app, last>>

\* update_weather from the return of one fetch to the next await, or to the
\* commit after the last city; the clock has advanced since the query, a
\* request to the provider taking time
UpdateWeatherFetch(p) ==
    /\ app = "running"
    /\ pc[p] = "fetching"
    /\ now > started[p]
    /\ \E up \in Upstreams :
         LET temp == fetch_weather(up)
             stg == [staged[p] EXCEPT ![idx[p]] = Assign(@, temp, now)]
             res == Append(results[p], [temp |-> temp, at |-> now])
         IN IF idx[p] < Len(staged[p])
            THEN /\ staged' = [staged EXCEPT ![p] = stg]
                 /\ results' = [results EXCEPT ![p] = res]
                 /\ idx' = [idx EXCEPT ![p] = idx[p] + 1]
                 /\ UNCHANGED <<cities, pc, snapshot, started, disturbed, last>>
            ELSE Finish(p, stg, res)
    /\ UNCHANGED <<default_cities_tbl, now, app>>

\* datetime.utcnow() advances
Tick ==
    /\ now < MaxTime
    /\ now' = now + 1
    /\ UNCHANGED <<cities, default_cities_tbl, app, pc, snapshot, staged, idx,
                   started, results, disturbed, last>>

\* -------------------------------------------------------------- the seed
\* float(s) for the cells of the data set: the number in 1/10000 degree, or
\* None where float raises ValueError
ParseFloat(s) ==
    CASE s = "48.8566" -> Some(488566)
      [] s = "2.3522"  -> Some(23522)
      [] s = "41.9028" -> Some(419028)
      [] s = "12.4964" -> Some(124964)
      [] s = "10.7522" -> Some(107522)
      [] OTHER -> None

\* rows csv.DictReader can yield from europe.csv
CsvRows ==
    { [name |-> "Paris", latitude |-> "48.8566", longitude |-> "2.3522"],
      [name |-> "Rome",  latitude |-> "41.9028", longitude |-> "12.4964"],
      [name |-> "Oslo",  latitude |-> "abc",     longitude |-> "10.7522"] }

RECURSIVE SeqsUpTo(_, _)
SeqsUpTo(S, n) ==
    IF n = 0 THEN {<<>>}
    ELSE LET shorter == SeqsUpTo(S, n - 1)
         IN shorter \cup {Append(q, x) : q \in shorter, x \in S}

\* europe.csv as the startup hook finds it: missing, not readable, data rows
\* under a header without the expected columns, or a readable list of rows
Files ==
    {[state |-> st, rows |-> <<>>] : st \in {"missing", "unreadable", "wrong_header"}}
    \cup {[state |-> "ok", rows |-> r] : r \in SeqsUpTo(CsvRows, MaxCsvRows)}

\* a row DefaultCity(name=row["name"], latitude=float(...), longitude=float(...))
\* can be built from
RowParses(row) == ParseFloat(row.latitude) # None /\ ParseFloat(row.longitude) # None

RECURSIVE InsertDefaults(_, _)
InsertDefaults(tbl, rows) ==
    IF rows = <<>> THEN tbl
    ELSE InsertDefaults(
           Append(tbl, DefaultCity(NextId(tbl), Head(rows).name,
                                   ParseFloat(Head(rows).latitude)[1],
                                   ParseFloat(Head(rows).longitude)[1])),
           Tail(rows))

\* the exception populate_default_cities lets out, "" when it returns: only
\* FileNotFoundError is caught
SeedRaises(tbl, file) ==
    IF tbl # <<>> THEN ""
    ELSE IF file.state = "missing" THEN ""
    ELSE IF file.state = "unreadable" THEN "PermissionError"
    ELSE IF file.state = "wrong_header" THEN "KeyError"
    ELSE IF \E i \in 1..Len(file.rows) : ~RowParses(file.rows[i]) THEN "ValueError"
    ELSE ""

\* the hook without its `if not db.query(DefaultCity).first()`
populate_default_citiesNoGuard(tbl, file) ==
    IF file.state = "ok" /\ \A i \in 1..Len(file.rows) : RowParses(file.rows[i])
    THEN InsertDefaults(tbl, file.rows)
    ELSE tbl

\* populate_default_cities: the table after the hook; rows added before an
\* exception are never committed
populate_default_cities(tbl, file) ==
    IF tbl # <<>> THEN tbl
    ELSE IF file.state = "ok" /\ SeedRaises(tbl, file) = ""
         THEN InsertDefaults(tbl, file.rows)
         ELSE tbl

\* a start of the process: the hook runs before any request is served, and
\* requests of an earlier run are gone
Startup(file) ==
    /\ default_cities_tbl' = populate_default_cities(default_cities_tbl, file)
    /\ app' = IF SeedRaises(default_cities_tbl, file) = "" THEN "running" ELSE "failed"
    /\ last' = [NoLast EXCEPT !.op = "startup",
                              !.status = IF SeedRaises(default_cities_tbl, file) = ""
                                         THEN 0 ELSE 1,
                              !.file = file.state, !.rows = file.rows]
    /\ pc' = [p \in Requests |-> "idle"]
    /\ snapshot' = [p \in Requests |-> <<>>]
    /\ staged' = [p \in Requests |-> <<>>]
    /\ idx' = [p \in Requests |-> 0]
    /\ started' = [p \in Requests |-> 0]
    /\ results' = [p \in Requests |-> <<>>]
    /\ disturbed' = [p \in Requests |-> FALSE]
    /\ UNCHANGED <<cities, now>>

\* ------------------------------------------------------ the specification
\* the module is imported: Base.metadata.create_all on a new database
Init ==
    /\ cities = <<>>
    /\ default_cities_tbl = <<>>
    /\ now = 0
    /\ app = "stopped"
    /\ pc = [p \in Requests |-> "idle"]
    /\ snapshot = [p \in Requests |-> <<>>]
    /\ staged = [p \in Requests |-> <<>>]
    /\ idx = [p \in Requests |-> 0]
    /\ started = [p \in Requests |-> 0]
    /\ results = [p \in Requests |-> <<>>]
    /\ disturbed = [p \in Requests |-> FALSE]
    /\ last = NoLast

\* the repository ships no europe.csv
NoFile == [state |-> "missing", rows |-> <<>>]

\* no request is between two awaits
Idle == \A p \in Requests : pc[p] = "idle"

\* requests served one after the other, over every form
Next ==
    \/ Startup(NoFile)
    \/ Idle /\ AddCity(Forms)
    \/ Idle /\ RemoveCity
    \/ Idle /\ ResetCities
    \/ Idle /\ UpdateWeatherStart(1)
    \/ UpdateWeatherFetch(1)
    \/ Tick

Spec == Init /\ [][Next]_vars

ValidForms == {form \in Forms : form.name = "Lyon" /\ form.latitude = 457600
                                /\ form.longitude = 48400}

\* one refresh, and the other handlers running at its awaits
NextConc ==
    \/ Startup(NoFile)
    \/ AddCity(ValidForms)
    \/ RemoveCity
    \/ ResetCities
    \/ UpdateWeatherStart(1)
    \/ UpdateWeatherFetch(1)
    \/ Tick

SpecConc == Init /\ [][NextConc]_vars

\* several refreshes running at each other's awaits
NextRace ==
    \/ Startup(NoFile)
    \/ AddCity(ValidForms)
    \/ \E p \in Requests : UpdateWeatherStart(p)
    \/ \E p \in Requests : UpdateWeatherFetch(p)
    \/ Tick

SpecRace == Init /\ [][NextRace]_vars

\* the starts of the process over every data set, and the reset that is to
\* read the seeded table
NextSeed ==
    \/ \E file \in Files : Startup(file)
    \/ ResetCities
    \/ RemoveCity
    \/ Tick

SpecSeed == Init /\ [][NextSeed]_vars

\* the weather client called for the tracked cities, over every answer
NextFetch ==
    \/ Startup(NoFile)
    \/ AddCity(ValidForms)
    \/ RemoveCity
    \/ FetchWeather
    \/ Tick

SpecFetch == Init /\ [][NextFetch]_vars

\* ================================================================ claims
Rows(s) == {s[i] : i \in 1..Len(s)}

\* the step in which request p leaves update_weather through db.commit()
Commits(p) == pc[p] = "fetching" /\ pc'[p] = "idle" /\ last'.op = "update" /\ last'.req = p

ValidForm(r) ==
    /\ r.name # ""
    /\ r.latitude >= -900000 /\ r.latitude <= 900000
    /\ r.longitude >= -1800000 /\ r.longitude <= 1800000

\* the step of an add_city that answered 303 to a valid form
AddsValid == last'.op = "add" /\ last'.status = 303 /\ cities' # cities /\ ValidForm(last')

\* the list is the list before plus one row of the form's fields and a fresh id
AddsOneRow(updated_at) ==
    /\ Len(cities') = Len(cities) + 1
    /\ SubSeq(cities', 1, Len(cities)) = cities
    /\ LET new == cities'[Len(cities')]
       IN /\ new.id \notin Ids(cities)
          /\ new.name = last'.name
          /\ new.latitude = last'.latitude
          /\ new.longitude = last'.longitude
          /\ new.temperature = None
          /\ new.updated_at = updated_at

C4_ResetCopiesDefaultTable ==
    (last.op = "reset" /\ last.status = 303) =>
        /\ Len(cities) = Len(default_cities_tbl)
        /\ \A i \in 1..Len(cities) :
             /\ i <= Len(default_cities_tbl)
             /\ cities[i].name = default_cities_tbl[i].name
             /\ cities[i].latitude = default_cities_tbl[i].latitude
             /\ cities[i].longitude = default_cities_tbl[i].longitude
             /\ cities[i].temperature = None
             /\ cities[i].updated_at = None

\* C5: add_city of a form with an empty name, a latitude outside [-90, 90] or
\* a longitude outside [-180, 180] answers a validation error and leaves the
\* tracked list as it was
C5_AddRejectsInvalid ==
    [][(last'.op = "add" /\ ~ValidForm(last')) =>
          (last'.status = 422 /\ cities' = cities)]_vars

\* C6: remove_city answers 303 in every case; with an id no tracked city has
\* the list is unchanged, with an id of the list exactly that row is gone and
\* every other row is as before
C6_RemoveExactlyThatRow ==
    [][last'.op = "remove" =>
         /\ last'.status = 303
         /\ IF last'.city_id \in Ids(cities)
            THEN /\ Len(cities') = Len(cities) - 1
                 /\ last'.city_id \notin Ids(cities')
                 /\ \A r \in Rows(cities) : r.id # last'.city_id => r \in Rows(cities')
            ELSE cities' = cities]_vars

\* an id that matches no city of a non-empty list
C6_Witness ==
    /\ last.op = "remove" /\ last.status = 303 /\ ~last.found
    /\ cities # <<>>
    /\ last.city_id \notin Ids(cities)

\* C7: no refresh reads its snapshot, fetches or commits while another
\* refresh is between its snapshot read and its commit
C7_RefreshesSerialized ==
    Cardinality({p \in Requests : pc[p] = "fetching"}) <= 1

\* the update staged for the i-th city of request p's snapshot is in the table
Visible(p, i) ==
    \E k \in 1..Len(cities') :
        /\ cities'[k].id = snapshot[p][i].id
        /\ cities'[k].temperature = last'.results[i].temp
        /\ cities'[k].updated_at = Some(last'.results[i].at)

AllVisible(p) ==
    \A i \in 1..Len(snapshot[p]) : last'.results[i].temp # None => Visible(p, i)

\* C8: at the commit of a refresh either every staged update (temperature and
\* updated_at of each city whose fetch returned a value) is in the table or
\* the table is as before the commit, whatever add, remove and reset did in
\* between; and with nothing in between a fetch without a value keeps no other
\* city's update from the table
C8_RefreshAllOrNothing ==
    [][Commits(1) =>
         /\ AllVisible(1) \/ cities' = cities
         /\ ~last'.disturbed => AllVisible(1)]_vars

\* the data set is readable and every row of it parses
Usable(l) == l.file = "ok" /\ \A i \in 1..Len(l.rows) : RowParses(l.rows[i])

\* C9: a non-empty default-city table is left as it is by every later step,
\* whatever data set a later startup finds; a startup on an empty table with
\* a readable data set inserts one row per row of the set
C9_SeedOnlyOnce ==
    [][/\ default_cities_tbl # <<>> => default_cities_tbl' = default_cities_tbl
       /\ (default_cities_tbl = <<>> /\ last'.op = "startup" /\ last' # last /\ Usable(last'))
             => Len(default_cities_tbl') = Len(last'.rows)]_vars

\* a startup that found a readable set of two rows and left the one row of an
\* earlier startup
C9_Witness ==
    /\ last.op = "startup" /\ last.status = 0
    /\ Usable(last) /\ Len(last.rows) = 2
    /\ Len(default_cities_tbl) = 1

\* C10: a startup that finds the data set missing, not readable or with a
\* row that does not parse inserts no default row and ends without an error
C10_BadSeedSkipped ==
    [][(last'.op = "startup" /\ ~Usable(last')) =>
          (last'.status = 0 /\ default_cities_tbl' = default_cities_tbl)]_vars

\* the answer is HTTP 200 with a numeric current_weather.temperature
NumericAnswer(up) == ~up.error /\ up.status = 200 /\ up.body = "number"

\* C11: fetch_weather returns the temperature for HTTP 200 with a numeric
\* current_weather.temperature and None for every other answer (a body that
\* is malformed or lacks the field, another status, a network error, a
\* timeout)
C11_FetchValueOnlyWhenNumeric ==
    last.op = "fetch" =>
        IF NumericAnswer(last.up)
        THEN last.temp = Some(last.up.temperature)
        ELSE last.temp = None

\* the tracked list is the whole inline list, in its order
IsDefaultList(s) ==
    /\ Len(s) = Len(default_cities)
    /\ \A i \in 1..Len(s) :
         /\ i <= Len(default_cities)
         /\ s[i].name = default_cities[i][1]
         /\ s[i].latitude = default_cities[i][2]
         /\ s[i].longitude = default_cities[i][3]

\* C12: a reset_cities, completed or failed part-way, with or without a
\* refresh between its awaits, leaves either the tracked list it found or the
\* whole default list: never a part of the default list, never default cities
\* beside cities of the list it found
C12_ResetAtomic ==
    [][last'.op = "reset" => (cities' = cities \/ IsDefaultList(cities'))]_vars

\* a reset that failed part-way while a refresh awaits a fetch: the list the
\* reset found is still there
C12_Witness ==
    /\ last.op = "reset" /\ last.status = 500
    /\ pc[1] = "fetching"
    /\ cities # <<>> /\ ~IsDefaultList(cities)
    /\ cities = snapshot[1]

\* the names and coordinates of the tracked cities, in the order of the list
NamesCoords(s) == [i \in 1..Len(s) |-> <<s[i].name, s[i].latitude, s[i].longitude>>]

\* the step of a reset_cities that answered 303
Resets == last'.op = "reset" /\ last'.status = 303

\* the reset before was the last request served
AfterReset == last.op = "reset" /\ last.status = 303

RefreshStep ==
    \/ pc'[1] # pc[1]
    \/ staged'[1] # staged[1]
    \/ idx'[1] # idx[1]
    \/ Commits(1)

\* the ids, names and coordinates of the tracked cities, in the order of the
\* list
Identities(s) ==
    [i \in 1..Len(s) |-> <<s[i].id, s[i].name, s[i].latitude, s[i].longitude>>]

\* C14: no step of a refresh adds or removes a tracked city or changes a
\* city's id, name, latitude or longitude, whatever add, remove and reset did
\* since its query; a city removed meanwhile is not there after the commit
C14_RefreshKeepsIdentities ==
    [][RefreshStep => Identities(cities') = Identities(cities)]_vars

\* a refresh committed after a city of its snapshot, for which it had fetched
\* a value, was removed: the city is not back
C14_Witness ==
    /\ last.op = "update" /\ last.disturbed
    /\ \E i \in 1..Len(last.stg) :
         /\ last.results[i].temp # None
         /\ last.stg[i].id \notin Ids(cities)

\* C15: in every reachable state a tracked city whose temperature is present
\* has updated_at present
C15_TemperatureImpliesUpdatedAt ==
    \A i \in 1..Len(cities) :
        cities[i].temperature # None => cities[i].updated_at # None

\* a refresh that add, remove or reset ran into has committed a temperature
C15_Witness ==
    /\ last.op = "update" /\ last.status = 303 /\ last.disturbed
    /\ \E i \in 1..Len(cities) :
         /\ cities[i].temperature # None
         /\ cities[i].updated_at = Some(now)

====
